---- MODULE Spec2Model ----
(***************************************************************************)
(* Firewall Rules Management System (firewall-rules-management.py).        *)
(*                                                                         *)
(* The model follows main(): one invocation constructs a                   *)
(* FirewallRulesManager (privilege check) and then runs the requested      *)
(* operations in the order of the `if args.X:` statements.  The packet     *)
(* filter's rule table (the kernel state behind `iptables`) and the        *)
(* snapshot file firewall_config.json outlive an invocation; everything    *)
(* else is reset when main() is invoked again.                             *)
(*                                                                         *)
(* Text is a sequence of atoms (words and the characters that matter to    *)
(* the JSON encoding: quote, backslash, newline).  The netstat dump of the *)
(* traffic census is a sequence of lines, each a sequence of characters.   *)
(***************************************************************************)
EXTENDS Integers, Sequences, FiniteSets, TLC

VARIABLES
    pc,           \* main(): the statement about to run
    privOk,       \* check_sudo_privileges succeeded in this invocation
    requested,    \* the args.X flags main() has read as set
    ran,          \* the operations called in this invocation
    failed,       \* the operations of this invocation that failed
    gwCalls,      \* iptables / netstat commands issued in this invocation
    last,         \* the most recent operation call: inputs and outcome
    ipt,          \* the packet filter's INPUT chain, in rule order
    config_file,  \* content of firewall_config.json, or NoFile
    lastSaved     \* what the most recent save_configuration captured

vars == <<pc, privOk, requested, ran, failed, gwCalls, last, ipt,
          config_file, lastSaved>>

(***************************************************************************)
(* Bounds.                                                                 *)
(***************************************************************************)
MaxRules == 2      \* entries the rule table can hold
MaxLines == 4      \* lines of a netstat dump

(***************************************************************************)
(* Rule descriptors: the arguments of add_rule / delete_rule.  An address  *)
(* is its dot-separated fields; 203.0.113.5 parses, 999.1.1.1 does not.    *)
(***************************************************************************)
GoodAddr == <<203, 0, 113, 5>>
BadAddr == <<999, 1, 1, 1>>
Addresses == {GoodAddr, BadAddr}
Ports == {0, 443, 65536}
Chains == {"INPUT"}

Descriptors ==
    [chain : Chains, source_ip : Addresses, destination_port : Ports,
     protocol : {"tcp"}]

NoRule ==
    [chain |-> "", source_ip |-> <<>>, destination_port |-> 0, protocol |-> ""]

\* ipaddress.ip_address(ip) raises ValueError unless ip is an IP literal
validate_ip(ip) ==
    /\ Len(ip) = 4
    /\ \A i \in 1..4 : ip[i] \in 0..255

(***************************************************************************)
(* The packet filter behind `sudo iptables`.                               *)
(***************************************************************************)
\* iptables parses the rule specification before it touches the table:
\* a bad address or a port above 65535 ends it with a non-zero exit status
EngineParses(d) ==
    /\ d.chain \in Chains
    /\ validate_ip(d.source_ip)
    /\ d.destination_port \in 0..65535

RECURSIVE FirstMatch(_, _, _)
\* index of the first rule of table t, from i on, equal to d; 0 if none
FirstMatch(t, d, i) ==
    IF i > Len(t) THEN 0
    ELSE IF t[i] = d THEN i
    ELSE FirstMatch(t, d, i + 1)

RemoveAt(t, k) == SubSeq(t, 1, k - 1) \o SubSeq(t, k + 1, Len(t))

Present(d, t) == FirstMatch(t, d, 1) # 0

\* iptables -A chain -p proto -s src --dport port -j ACCEPT: appends the
\* rule at the end of the chain, whether or not an equal rule is there.
\* Exit status 2: the rule specification does not parse.  healthy = FALSE:
\* the command fails for a reason of its own (xtables lock, kernel, sudo
\* ticket expired), exit status 4; so does a table that is full.
EngineAppend(t, d, healthy) ==
    IF ~EngineParses(d)
    THEN [exit |-> 2, table |-> t, cause |-> "error"]
    ELSE IF ~healthy \/ Len(t) >= MaxRules
    THEN [exit |-> 4, table |-> t, cause |-> "error"]
    ELSE [exit |-> 0, table |-> Append(t, d), cause |-> "none"]

\* iptables -D chain <rule>: deletes the first rule of the chain that
\* matches; exit status 1 ("Bad rule (does a matching rule exist in that
\* chain?)") when no rule matches
EngineDelete(t, d, healthy) ==
    IF ~EngineParses(d)
    THEN [exit |-> 2, table |-> t, cause |-> "error"]
    ELSE IF ~healthy
    THEN [exit |-> 4, table |-> t, cause |-> "error"]
    ELSE IF ~Present(d, t)
    THEN [exit |-> 1, table |-> t, cause |-> "absent"]
    ELSE [exit |-> 0, table |-> RemoveAt(t, FirstMatch(t, d, 1)),
          cause |-> "none"]

AddrText(ip) ==
    <<ToString(ip[1]), ".", ToString(ip[2]), ".", ToString(ip[3]), ".",
      ToString(ip[4])>>

RuleLine(d) ==
    <<"ACCEPT", d.protocol>> \o AddrText(d.source_ip)
        \o <<"dpt:", ToString(d.destination_port), "\n">>

RECURSIVE RuleLines(_)
RuleLines(t) ==
    IF t = <<>> THEN <<>> ELSE RuleLine(Head(t)) \o RuleLines(Tail(t))

\* stdout of iptables -L -n -v: the chain's header, then a line per rule
\* in rule order
EngineListing(t) == <<"Chain", "INPUT", "\n">> \o RuleLines(t)

\* the listing has a line for the rule d
ListingHas(text, d) ==
    \E i \in 1..Len(text) :
        /\ i + Len(RuleLine(d)) - 1 <= Len(text)
        /\ SubSeq(text, i, i + Len(RuleLine(d)) - 1) = RuleLine(d)

(***************************************************************************)
(* json.dump / json.load on the snapshot record.  A Python value is a str  *)
(* (a text) or a list; list_current_rules returns the one or the other.    *)
(***************************************************************************)
Quote == "\""
Backslash == "\\"
Newline == "\n"
Indent == "    "
Whitespace == {" ", Newline, Indent}

PyStr(text) == [type |-> "str", val |-> text]
PyEmptyList == [type |-> "list", val |-> <<>>]

\* an encoder that writes every character as it is
JsonEscapeRaw(a) == <<a>>

\* json's encoding of one character of a str
JsonEscape(a) ==
    IF a = Quote THEN <<Backslash, Quote>>
    ELSE IF a = Backslash THEN <<Backslash, Backslash>>
    ELSE IF a = Newline THEN <<Backslash, "n">>
    ELSE <<a>>

RECURSIVE JsonEscapeAll(_)
JsonEscapeAll(text) ==
    IF text = <<>> THEN <<>>
    ELSE JsonEscape(Head(text)) \o JsonEscapeAll(Tail(text))

JsonString(text) == <<Quote>> \o JsonEscapeAll(text) \o <<Quote>>

JsonValue(v) ==
    IF v.type = "str" THEN JsonString(v.val) ELSE <<"[", "]">>

\* json.dump({'timestamp': ts, 'rules': rules}, f, indent=4)
JsonDump(ts, rules) ==
    <<"{", Newline, Indent>> \o JsonString(<<"timestamp">>) \o <<":", " ">>
        \o JsonString(ts) \o <<",", Newline, Indent>>
        \o JsonString(<<"rules">>) \o <<":", " ">> \o JsonValue(rules)
        \o <<Newline, "}">>

ParseFail == [ok |-> FALSE, val |-> <<>>, next |-> 0]

RECURSIVE SkipWs(_, _)
SkipWs(s, i) ==
    IF i <= Len(s) /\ s[i] \in Whitespace THEN SkipWs(s, i + 1) ELSE i

RECURSIVE ScanString(_, _, _)
\* the characters of a JSON string from position i (after the opening
\* quote) up to its closing quote
ScanString(s, i, acc) ==
    IF i > Len(s) THEN ParseFail
    ELSE IF s[i] = Quote THEN [ok |-> TRUE, val |-> acc, next |-> i + 1]
    ELSE IF s[i] = Newline THEN ParseFail
    ELSE IF s[i] = Backslash
    THEN IF i + 1 > Len(s) THEN ParseFail
         ELSE IF s[i + 1] = "n" THEN ScanString(s, i + 2, Append(acc, Newline))
         ELSE IF s[i + 1] \in {Quote, Backslash}
         THEN ScanString(s, i + 2, Append(acc, s[i + 1]))
         ELSE ParseFail
    ELSE ScanString(s, i + 1, Append(acc, s[i]))

ParseString(s, i) ==
    IF i <= Len(s) /\ s[i] = Quote THEN ScanString(s, i + 1, <<>>)
    ELSE ParseFail

\* a value of the snapshot record: a string or the empty list
ParseValue(s, i) ==
    IF i > Len(s) THEN ParseFail
    ELSE IF s[i] = Quote
    THEN LET r == ParseString(s, i)
         IN  IF r.ok THEN [ok |-> TRUE, val |-> PyStr(r.val), next |-> r.next]
             ELSE ParseFail
    ELSE IF s[i] = "[" /\ SkipWs(s, i + 1) <= Len(s)
                       /\ s[SkipWs(s, i + 1)] = "]"
    THEN [ok |-> TRUE, val |-> PyEmptyList, next |-> SkipWs(s, i + 1) + 1]
    ELSE ParseFail

RECURSIVE ParseMembers(_, _, _)
\* the members of an object from position i (a key) up to the closing brace
ParseMembers(s, i, acc) ==
    LET k == ParseString(s, i)
        c == SkipWs(s, k.next)
        v == ParseValue(s, SkipWs(s, c + 1))
        e == SkipWs(s, v.next)
    IN  IF ~k.ok \/ c > Len(s) \/ s[c] # ":" THEN ParseFail
        ELSE IF ~v.ok \/ e > Len(s) THEN ParseFail
        ELSE IF s[e] = ","
        THEN ParseMembers(s, SkipWs(s, e + 1),
                          Append(acc, [key |-> k.val, value |-> v.val]))
        ELSE IF s[e] = "}"
        THEN [ok |-> TRUE,
              val |-> Append(acc, [key |-> k.val, value |-> v.val]),
              next |-> e + 1]
        ELSE ParseFail

ParseObject(s, i) ==
    IF i > Len(s) \/ s[i] # "{" THEN ParseFail
    ELSE IF SkipWs(s, i + 1) <= Len(s) /\ s[SkipWs(s, i + 1)] = "}"
    THEN [ok |-> TRUE, val |-> <<>>, next |-> SkipWs(s, i + 1) + 1]
    ELSE ParseMembers(s, SkipWs(s, i + 1), <<>>)

\* json.load(f): the record as a sequence of (key, value) pairs, or a
\* JSONDecodeError (ok = FALSE)
JsonLoad(s) ==
    LET r == ParseObject(s, SkipWs(s, 1))
    IN  IF r.ok /\ SkipWs(s, r.next) > Len(s)
        THEN [ok |-> TRUE, pairs |-> r.val]
        ELSE [ok |-> FALSE, pairs |-> <<>>]

HasKey(pairs, k) == \E i \in 1..Len(pairs) : pairs[i].key = k

\* config[k]: the value of the last pair with key k
Lookup(pairs, k) ==
    pairs[CHOOSE i \in 1..Len(pairs) :
            /\ pairs[i].key = k
            /\ \A j \in (i + 1)..Len(pairs) : pairs[j].key # k].value

(***************************************************************************)
(* The traffic census.  A line of the netstat dump is its characters; each *)
(* sample line carries what a reader of the line sees in it: whether an    *)
(* IPv4 address:port occurs, the number of whitespace-separated fields,    *)
(* the first field and what follows the last colon of the fourth.          *)
(***************************************************************************)
\* "tcp  0 0 0.0.0.0:22 0.0.0.0:* LISTEN"
LineTcp ==
    [text |->
        <<"t", "c", "p", " ", " ", "0", " ", "0", " ", "0", ".", "0", ".",
          "0", ".", "0", ":", "2", "2", " ", "0", ".", "0", ".", "0", ".",
          "0", ":", "*", " ", "L", "I", "S", "T", "E", "N">>,
     pattern |-> TRUE, fields |-> 6,
     proto |-> <<"t", "c", "p">>, port |-> <<"2", "2">>]

\* "udp 0 0 127.0.0.1:53 0.0.0.0:*"
LineUdp ==
    [text |->
        <<"u", "d", "p", " ", "0", " ", "0", " ", "1", "2", "7", ".", "0",
          ".", "0", ".", "1", ":", "5", "3", " ", "0", ".", "0", ".", "0",
          ".", "0", ":", "*">>,
     pattern |-> TRUE, fields |-> 5,
     proto |-> <<"u", "d", "p">>, port |-> <<"5", "3">>]

\* "Proto Recv-Q Send-Q Local Address"
LineHeader ==
    [text |->
        <<"P", "r", "o", "t", "o", " ", "R", "e", "c", "v", "-", "Q", " ",
          "S", "e", "n", "d", "-", "Q", " ", "L", "o", "c", "a", "l", " ",
          "A", "d", "d", "r", "e", "s", "s">>,
     pattern |-> FALSE, fields |-> 5,
     proto |-> <<"P", "r", "o", "t", "o">>, port |-> <<"L", "o", "c", "a", "l">>]

\* "tcp 0 0.0.0.0:22"
LineShort ==
    [text |->
        <<"t", "c", "p", " ", "0", " ", "0", ".", "0", ".", "0", ".", "0",
          ":", "2", "2">>,
     pattern |-> TRUE, fields |-> 3,
     proto |-> <<"t", "c", "p">>, port |-> <<>>]

\* ""
LineEmpty ==
    [text |->
        <<>>,
     pattern |-> FALSE, fields |-> 0,
     proto |-> <<>>, port |-> <<>>]

\* "tcp6 0 0 :::80 :::* LISTEN"
LineV6 ==
    [text |->
        <<"t", "c", "p", "6", " ", "0", " ", "0", " ", ":", ":", ":", "8",
          "0", " ", ":", ":", ":", "*", " ", "L", "I", "S", "T", "E", "N">>,
     pattern |-> FALSE, fields |-> 6,
     proto |-> <<"t", "c", "p", "6">>, port |-> <<"8", "0">>]

\* "udp 0 0 :::68 10.0.0.1:5"
LineFar ==
    [text |->
        <<"u", "d", "p", " ", "0", " ", "0", " ", ":", ":", ":", "6", "8",
          " ", "1", "0", ".", "0", ".", "0", ".", "1", ":", "5">>,
     pattern |-> TRUE, fields |-> 5,
     proto |-> <<"u", "d", "p">>, port |-> <<"6", "8">>]

LineSamples ==
    {LineTcp, LineUdp, LineHeader, LineShort,
     LineEmpty, LineV6, LineFar}

RECURSIVE SeqsUpTo(_, _)
\* the sequences over S of length 1..n
SeqsUpTo(S, n) ==
    IF n = 0 THEN {}
    ELSE LET shorter == SeqsUpTo(S, n - 1)
         IN  {<<x>> : x \in S} \cup shorter
                \cup {Append(q, x) : q \in shorter, x \in S}

\* netstat dumps, as result.stdout.split('\n') cuts them: a text is the
\* sequence of its newline-separated pieces, so it has at least one
Dumps == SeqsUpTo(LineSamples, MaxLines)

Digits == {"0", "1", "2", "3", "4", "5", "6", "7", "8", "9"}

RECURSIVE DigitRunEnd(_, _)
\* the position after the digits that start at i (i itself if none does)
DigitRunEnd(s, i) ==
    IF i <= Len(s) /\ s[i] \in Digits THEN DigitRunEnd(s, i + 1) ELSE i

\* \d+ then the character c, from i: the position after c, or 0
DigitsThen(s, i, c) ==
    LET e == DigitRunEnd(s, i)
    IN  IF i # 0 /\ e > i /\ e <= Len(s) /\ s[e] = c THEN e + 1 ELSE 0

\* r'\d+\.\d+\.\d+\.\d+:\d+' matches at position i
PatternAt(s, i) ==
    LET p == DigitsThen(s, DigitsThen(s, DigitsThen(s, DigitsThen(s, i, "."),
                                                    "."), "."), ":")
    IN  p # 0 /\ p <= Len(s) /\ s[p] \in Digits

\* re.search(r'\d+\.\d+\.\d+\.\d+:\d+', conn)
re_search(s) == \E i \in 1..Len(s) : PatternAt(s, i)

RECURSIVE SplitFrom(_, _, _, _)
SplitFrom(s, i, cur, acc) ==
    IF i > Len(s) THEN (IF cur = <<>> THEN acc ELSE Append(acc, cur))
    ELSE IF s[i] = " "
    THEN SplitFrom(s, i + 1, <<>>, IF cur = <<>> THEN acc ELSE Append(acc, cur))
    ELSE SplitFrom(s, i + 1, Append(cur, s[i]), acc)

\* conn.split(): the runs of non-blank characters
split(s) == SplitFrom(s, 1, <<>>, <<>>)

RECURSIVE AfterLastColon(_, _)
AfterLastColon(s, i) ==
    IF i = 0 \/ s[i] = ":" THEN SubSeq(s, i + 1, Len(s))
    ELSE AfterLastColon(s, i - 1)

\* parts[3].split(':')[-1]
last_colon_part(s) == AfterLastColon(s, Len(s))

\* a loop body without the address:port test
counts_line_unfiltered(conn) == Len(split(conn)) >= 4

\* the two `if` of the loop body: the line enters the aggregates
counts_line(conn) == re_search(conn) /\ Len(split(conn)) >= 4

\* connection_protocols.get(protocol, 0) + 1
Increment(counts, protocol) ==
    [k \in DOMAIN counts \cup {protocol} |->
        IF k = protocol
        THEN (IF protocol \in DOMAIN counts THEN counts[protocol] ELSE 0) + 1
        ELSE counts[k]]

EmptyDict == [k \in {} |-> 0]

NoSummary ==
    [total_connections |-> 0, listening_ports |-> <<>>,
     connection_protocols |-> EmptyDict]

RECURSIVE scan_connections(_, _, _)
\* the for loop over connections, from line i on
scan_connections(connections, i, analysis) ==
    IF i > Len(connections) THEN analysis
    ELSE IF counts_line(connections[i])
    THEN scan_connections(connections, i + 1,
            [analysis EXCEPT
                !.listening_ports =
                    Append(@, last_colon_part(split(connections[i])[4])),
                !.connection_protocols =
                    Increment(@, split(connections[i])[1])])
    ELSE scan_connections(connections, i + 1, analysis)

\* the analysis dict built from the pieces of result.stdout
summarize(connections) ==
    scan_connections(connections, 1,
        [total_connections |-> Len(connections), listening_ports |-> <<>>,
         connection_protocols |-> EmptyDict])

Texts(dump) == [i \in 1..Len(dump) |-> dump[i].text]

(***************************************************************************)
(* main() and the operations of FirewallRulesManager.                      *)
(*                                                                         *)
(* The parsed arguments never change, so each args.X is drawn where main() *)
(* reads it (`requested` keeps the flags read as set).  The outcome of an  *)
(* external command that the program does not control (sudo, the health of *)
(* the packet filter, netstat's output, the clock) is drawn where the      *)
(* command runs.                                                           *)
(***************************************************************************)
Operations == <<"list", "add", "delete", "analyze", "save", "restore">>
AllOperations == {Operations[i] : i \in 1..Len(Operations)}

Rank(o) == CHOOSE i \in 1..Len(Operations) : Operations[i] = o

\* the statement of main() after the `if args.o:` statement
Following(o) ==
    IF Rank(o) = Len(Operations) THEN "done" ELSE Operations[Rank(o) + 1]

\* datetime.now().isoformat()
Instants == {<<"2026-01-01T00:00:00">>}

NoFile == [exists |-> FALSE, content |-> <<>>]
\* a record cut short, and a record without the timestamp field
TruncatedFile == [exists |-> TRUE, content |-> <<"{", Newline, Indent, Quote>>]
ForeignFile == [exists |-> TRUE, content |-> <<"{", "}">>]

NoCall ==
    [op |-> "", d |-> NoRule, ret |-> "", cause |-> "", calls |-> 0,
     stdout |-> <<>>, summary |-> NoSummary, replaced |-> FALSE]

Call(o, ret, cause, calls) ==
    [NoCall EXCEPT !.op = o, !.ret = ret, !.cause = cause, !.calls = calls]

RuleCall(o, d, ret, cause, calls) ==
    [Call(o, ret, cause, calls) EXCEPT !.d = d]

\* the call returns to main(), which goes on to its next statement
Return(call, failure) ==
    /\ pc' = Following(call.op)
    /\ requested' = requested \cup {call.op}
    /\ ran' = ran \cup {call.op}
    /\ failed' = IF failure THEN failed \cup {call.op} ELSE failed
    /\ gwCalls' = gwCalls + call.calls
    /\ last' = call
    /\ UNCHANGED privOk

\* args.o is not set
Skip(o) ==
    /\ pc' = Following(o)
    /\ UNCHANGED <<privOk, requested, ran, failed, gwCalls, last, ipt,
                   config_file, lastSaved>>

\* a privilege check that logs the failure and returns
check_sudo_privileges_logged(sudoOk) ==
    /\ pc' = "list"
    /\ privOk' = sudoOk

\* check_sudo_privileges: `sudo -n true` raises CalledProcessError, turned
\* into PermissionError, which leaves __init__ and main()
check_sudo_privileges(sudoOk) ==
    /\ pc' = IF sudoOk THEN "list" ELSE "denied"
    /\ privOk' = sudoOk

\* firewall_manager = FirewallRulesManager()
Construct ==
    /\ pc = "start"
    /\ \E sudoOk \in BOOLEAN : check_sudo_privileges(sudoOk)
    /\ UNCHANGED <<requested, ran, failed, gwCalls, last, ipt, config_file,
                   lastSaved>>

\* what list_current_rules returns: stdout, or [] on CalledProcessError
list_value(healthy) ==
    IF healthy THEN PyStr(EngineListing(ipt)) ELSE PyEmptyList

list_current_rules(healthy) ==
    /\ Return([Call("list", IF healthy THEN "text" ELSE "[]",
                    IF healthy THEN "none" ELSE "error", 1)
                 EXCEPT !.stdout = list_value(healthy).val],
              ~healthy)
    /\ UNCHANGED <<ipt, config_file, lastSaved>>

\* the try / except around subprocess.run(rule_command, check=True)
rule_result(res) == IF res.exit = 0 THEN "True" ELSE "False"

\* an add_rule whose subprocess error leaves the method and main()
add_rule_raising(d, healthy) ==
    /\ IF ~validate_ip(d.source_ip)
       THEN /\ Return(RuleCall("add", d, "False", "invalid", 0), TRUE)
            /\ UNCHANGED ipt
       ELSE LET res == EngineAppend(ipt, d, healthy)
            IN  /\ ipt' = res.table
                /\ IF res.exit = 0
                   THEN Return(RuleCall("add", d, "True", res.cause, 1), FALSE)
                   ELSE /\ pc' = "crashed"
                        /\ requested' = requested \cup {"add"}
                        /\ ran' = ran \cup {"add"}
                        /\ failed' = failed \cup {"add"}
                        /\ gwCalls' = gwCalls + 1
                        /\ last' = RuleCall("add", d, "raise", res.cause, 1)
                        /\ UNCHANGED privOk
    /\ UNCHANGED <<config_file, lastSaved>>

add_rule(d, healthy) ==
    /\ IF ~validate_ip(d.source_ip)
       THEN /\ Return(RuleCall("add", d, "False", "invalid", 0), TRUE)
            /\ UNCHANGED ipt
       ELSE LET res == EngineAppend(ipt, d, healthy)
            IN  /\ ipt' = res.table
                /\ Return(RuleCall("add", d, rule_result(res), res.cause, 1),
                          res.exit # 0)
    /\ UNCHANGED <<config_file, lastSaved>>

delete_rule(d, healthy) ==
    /\ LET res == EngineDelete(ipt, d, healthy)
       IN  /\ ipt' = res.table
           /\ Return(RuleCall("delete", d, rule_result(res), res.cause, 1),
                     res.exit # 0)
    /\ UNCHANGED <<config_file, lastSaved>>

\* netstat -tuln fails (analysis {}), or its output is summarized
analyze_traffic(dump, healthy) ==
    /\ IF healthy
       THEN Return([Call("analyze", "dict", "none", 1)
                      EXCEPT !.stdout = dump,
                             !.summary = summarize(Texts(dump))],
                   FALSE)
       ELSE Return(Call("analyze", "{}", "error", 1), TRUE)
    /\ UNCHANGED <<ipt, config_file, lastSaved>>

\* open(self.config_file, 'w'); json.dump(config, f, indent=4)
write_config(now, rules) == [exists |-> TRUE, content |-> JsonDump(now, rules)]

save_configuration(now, healthy) ==
    /\ config_file' = write_config(now, list_value(healthy))
    /\ lastSaved' = [taken |-> TRUE, timestamp |-> now,
                     rules |-> list_value(healthy)]
    /\ Return([Call("save", "None", IF healthy THEN "none" ELSE "error", 1)
                 EXCEPT !.replaced =
                     /\ config_file.exists
                     /\ config_file # write_config(now, list_value(healthy))],
              FALSE)
    /\ UNCHANGED ipt

\* how restore_configuration ends: FileNotFoundError, another exception
\* (JSONDecodeError, KeyError on 'timestamp'), or the message printed
restore_cause ==
    IF ~config_file.exists THEN "missing"
    ELSE IF ~JsonLoad(config_file.content).ok THEN "corrupt"
    ELSE IF ~HasKey(JsonLoad(config_file.content).pairs, <<"timestamp">>)
    THEN "corrupt"
    ELSE "none"

\* a restore that replays the snapshot by appending a rule
restore_configuration_replaying ==
    /\ Return(Call("restore", "None", restore_cause, 1),
              restore_cause # "none")
    /\ ipt' = IF restore_cause = "none"
              THEN EngineAppend(ipt,
                       [chain |-> "INPUT", source_ip |-> GoodAddr,
                        destination_port |-> 443, protocol |-> "tcp"],
                       TRUE).table
              ELSE ipt
    /\ UNCHANGED <<config_file, lastSaved>>

restore_configuration ==
    /\ Return([Call("restore", "None", restore_cause, 0)
                 EXCEPT !.stdout =
                     IF restore_cause = "none"
                     THEN Lookup(JsonLoad(config_file.content).pairs,
                                 <<"timestamp">>).val
                     ELSE <<>>],
              restore_cause # "none")
    /\ UNCHANGED <<ipt, config_file, lastSaved>>

\* the texts netstat prints in an invocation of main()
NetstatSamples == {<<LineHeader, LineTcp, LineEmpty>>, <<LineShort>>}

MainList ==
    /\ pc = "list"
    /\ \/ Skip("list")
       \/ \E healthy \in BOOLEAN : list_current_rules(healthy)

MainAdd ==
    /\ pc = "add"
    /\ \/ Skip("add")
       \/ \E d \in Descriptors, healthy \in BOOLEAN : add_rule(d, healthy)

MainDelete ==
    /\ pc = "delete"
    /\ \/ Skip("delete")
       \/ \E d \in Descriptors, healthy \in BOOLEAN : delete_rule(d, healthy)

MainAnalyze(dumps) ==
    /\ pc = "analyze"
    /\ \/ Skip("analyze")
       \/ \E dump \in dumps, healthy \in BOOLEAN :
              analyze_traffic(dump, healthy)

MainSave ==
    /\ pc = "save"
    /\ \/ Skip("save")
       \/ \E now \in Instants, healthy \in BOOLEAN :
              save_configuration(now, healthy)

MainRestore ==
    /\ pc = "restore"
    /\ \/ Skip("restore")
       \/ restore_configuration

\* main() has returned, or PermissionError has ended it: the program is
\* invoked again; the rule table and the snapshot file are as it left them
Invoke ==
    /\ pc \in {"done", "denied"}
    /\ pc' = "start"
    /\ privOk' = FALSE
    /\ requested' = {}
    /\ ran' = {}
    /\ failed' = {}
    /\ gwCalls' = 0
    /\ last' = NoCall
    /\ UNCHANGED <<ipt, config_file, lastSaved>>

Init ==
    /\ pc = "start"
    /\ privOk = FALSE
    /\ requested = {}
    /\ ran = {}
    /\ failed = {}
    /\ gwCalls = 0
    /\ last = NoCall
    /\ ipt = <<>>
    /\ config_file \in {NoFile, TruncatedFile, ForeignFile}
    /\ lastSaved = [taken |-> FALSE, timestamp |-> <<>>, rules |-> PyEmptyList]

Next ==
    \/ Construct
    \/ MainList
    \/ MainAdd
    \/ MainDelete
    \/ MainAnalyze(NetstatSamples)
    \/ MainSave
    \/ MainRestore
    \/ Invoke

Spec == Init /\ [][Next]_vars

(***************************************************************************)
(* The traffic census on its own: main() stands at `if args.analyze:` of   *)
(* an invocation that has run nothing yet, and netstat prints any dump.    *)
(***************************************************************************)
CensusInit ==
    /\ pc = "analyze"
    /\ privOk = TRUE
    /\ requested = {}
    /\ ran = {}
    /\ failed = {}
    /\ gwCalls = 0
    /\ last = NoCall
    /\ ipt = <<>>
    /\ config_file = NoFile
    /\ lastSaved = [taken |-> FALSE, timestamp |-> <<>>, rules |-> PyEmptyList]

CensusNext == MainAnalyze(Dumps)

CensusSpec == CensusInit /\ [][CensusNext]_vars

(***************************************************************************)
(* Properties.                                                             *)
(***************************************************************************)
\* the step is a call of add_rule / delete_rule; last' holds its arguments
AddCalled == pc = "add" /\ "add" \in ran'
DeleteCalled == pc = "delete" /\ "delete" \in ran'

\* a RuleDescriptor that satisfies the invariant of the data model
ValidDescriptor(d) ==
    /\ d.chain \in {"INPUT", "OUTPUT", "FORWARD"}
    /\ validate_ip(d.source_ip)
    /\ d.destination_port \in 1..65535
    /\ d.protocol \in {"tcp", "udp"}

GoodRule ==
    [chain |-> "INPUT", source_ip |-> GoodAddr, destination_port |-> 443,
     protocol |-> "tcp"]

\* C1: add_rule of a valid descriptor that is already in the rule table,
\* with the packet filter accepting the command, leaves the rule table as
\* it was and returns True.
C1_IdempotentApply ==
    [][(AddCalled /\ ValidDescriptor(last'.d) /\ Present(last'.d, ipt)
            /\ last'.cause = "none"
        => ipt' = ipt /\ last'.ret = "True")]_vars

\* C2: delete_rule of a descriptor that is not in the rule table leaves the
\* table as it was and returns an outcome other than the one it returns for
\* an engine error.
C2_WithdrawAbsentIsNotFound ==
    [][(DeleteCalled /\ last'.cause = "absent"
        => /\ ipt' = ipt
           /\ last'.ret # rule_result([exit |-> 4, table |-> ipt,
                                       cause |-> "error"]))]_vars

\* C3: add_rule with a destination port outside 1..65535 returns False
\* without issuing a packet-filter command: the command count and the rule
\* table stay as they were.
C3_PortRangeGate ==
    [][(AddCalled /\ last'.d.destination_port \notin 1..65535
        => /\ last'.ret = "False"
           /\ last'.calls = 0
           /\ gwCalls' = gwCalls
           /\ ipt' = ipt)]_vars

\* C4: add_rule and delete_rule with a source address that is no IP literal
\* return False and issue no packet-filter command.
C4_ValidatorGatesMutations ==
    [][((AddCalled \/ DeleteCalled) /\ ~validate_ip(last'.d.source_ip)
        => /\ last'.ret = "False"
           /\ last'.calls = 0
           /\ gwCalls' = gwCalls
           /\ ipt' = ipt)]_vars

\* C5: once delete_rule(d) has returned True, the rule listing has no line
\* for d and a delete of d issued next finds no matching rule.
C5_WithdrawnRuleIsGone ==
    last.op = "delete" /\ last.ret = "True"
        => /\ ~ListingHas(EngineListing(ipt), last.d)
           /\ EngineDelete(ipt, last.d, TRUE).cause = "absent"

\* C6: after any sequence of save_configuration calls, json.load of the
\* snapshot file gives a record of exactly the two fields of the most
\* recent save, whose rules field equals the listing that save captured.
C6_SnapshotRoundTrip ==
    lastSaved.taken
        => /\ config_file.exists
           /\ LET config == JsonLoad(config_file.content)
              IN  /\ config.ok
                  /\ Len(config.pairs) = 2
                  /\ HasKey(config.pairs, <<"rules">>)
                  /\ Lookup(config.pairs, <<"rules">>) = lastSaved.rules
                  /\ HasKey(config.pairs, <<"timestamp">>)
                  /\ Lookup(config.pairs, <<"timestamp">>)
                        = PyStr(lastSaved.timestamp)

\* a save has replaced an earlier, different snapshot with a listing that
\* shows a rule
C6_Witness ==
    /\ last.op = "save"
    /\ last.replaced
    /\ lastSaved.rules = PyStr(EngineListing(ipt))
    /\ Len(ipt) >= 1

\* C7: restore_configuration issues no packet-filter command and leaves
\* the rule table and the snapshot file as they were, whether the snapshot
\* loads, is missing or does not parse.
C7_RestoreIsInformational ==
    [][(pc = "restore"
        => /\ ipt' = ipt
           /\ config_file' = config_file
           /\ gwCalls' = gwCalls
           /\ (last'.op = "restore" => last'.calls = 0))]_vars

\* restore_configuration has loaded a snapshot whose listing shows a rule
\* while the rule table holds none
C7_Witness ==
    /\ last.op = "restore"
    /\ last.cause = "none"
    /\ lastSaved.taken
    /\ lastSaved.rules.type = "str"
    /\ ListingHas(lastSaved.rules.val, GoodRule)
    /\ ipt = <<>>

\* what a reader of the dump expects of the census
Qualifies(line) == line.pattern /\ line.fields >= 4

RECURSIVE ExpectedPorts(_)
ExpectedPorts(dump) ==
    IF dump = <<>> THEN <<>>
    ELSE (IF Qualifies(Head(dump)) THEN <<Head(dump).port>> ELSE <<>>)
            \o ExpectedPorts(Tail(dump))

QualifyingWith(dump, proto) ==
    {i \in 1..Len(dump) : Qualifies(dump[i]) /\ dump[i].proto = proto}

\* C8: analyze_traffic counts every line of the dump in total_connections;
\* exactly the lines that contain the IPv4 address:port pattern and have at
\* least four fields add an entry to listening_ports, in scan order with
\* duplicates kept, and one to connection_protocols under their first
\* field.
C8_CensusAggregates ==
    last.op = "analyze" /\ last.ret = "dict"
        => /\ last.summary.total_connections = Len(last.stdout)
           /\ last.summary.listening_ports = ExpectedPorts(last.stdout)
           /\ DOMAIN last.summary.connection_protocols
                = {last.stdout[i].proto :
                       i \in {j \in 1..Len(last.stdout) :
                                  Qualifies(last.stdout[j])}}
           /\ \A proto \in DOMAIN last.summary.connection_protocols :
                  last.summary.connection_protocols[proto]
                      = Cardinality(QualifyingWith(last.stdout, proto))

\* a dump with a header, the same listening socket twice and a line of
\* three fields has been analysed
C8_Witness ==
    /\ last.op = "analyze"
    /\ last.ret = "dict"
    /\ \E i, j, k, h \in 1..Len(last.stdout) :
          /\ i < j
          /\ last.stdout[i] = LineTcp
          /\ last.stdout[j] = LineTcp
          /\ last.stdout[k] = LineShort
          /\ last.stdout[h] = LineHeader
    /\ last.summary.listening_ports = <<LineTcp.port, LineTcp.port>>

\* C9: the privilege check runs at construction only; when it fails the
\* invocation ends there, having called no operation and issued no command;
\* an operation is called, a command issued, the rule table or the snapshot
\* file changed only after the privilege check of the invocation succeeded.
C9_PrivilegeFirst ==
    [][(/\ (pc = "start" => (pc' = "denied" <=> ~privOk'))
        /\ (pc' = "denied" => ran' = {} /\ gwCalls' = 0 /\ last' = NoCall)
        /\ (pc = "denied" => pc' = "start" /\ ipt' = ipt
                                /\ config_file' = config_file)
        /\ (pc \in AllOperations => privOk /\ privOk')
        /\ ((~(ran' \subseteq ran) \/ gwCalls' > gwCalls \/ ipt' # ipt
               \/ config_file' # config_file)
             => privOk /\ privOk'))]_vars

\* an invocation has been denied while the packet filter holds a rule
C9_Witness == pc = "denied" /\ ~privOk /\ ipt # <<>>

\* C10: main() goes through list, add, delete, analyze, save, restore in
\* this order, calls each requested operation and only it at its turn, and
\* goes on to the next whatever the outcome; at the end every requested
\* operation has been called.
C10_OperationsIndependent ==
    [][(pc \in AllOperations
        => /\ pc' = Following(pc)
           /\ ran' \in {ran, ran \cup {pc}}
           /\ requested' \in {requested, requested \cup {pc}}
           /\ (pc \in requested' <=> pc \in ran')
           /\ (pc' = "done" => ran' = requested'))]_vars

\* every operation was requested; list, add, delete and analyze failed and
\* save and restore were still called
C10_Witness ==
    /\ pc = "done"
    /\ ran = AllOperations
    /\ {"list", "add", "delete", "analyze"} \subseteq failed
    /\ last.op = "restore"

====
